---- MODULE Spec2Model ----
(***************************************************************************)
(* Audio engine session layer of track-alchemy-gen.                        *)
(*                                                                         *)
(* Modelled hooks: useAudioContext (second revision in the file, lines     *)
(* 301-731), useTrackAudio, useInstrumentSetup, useTrackState,             *)
(* useAudioExporter and the reset handler / auto-reset effects of the      *)
(* Index page.                                                             *)
(*                                                                         *)
(* Tone.js is an external library.  Its part of the state is the global    *)
(* context returned by Tone.getContext() (toneContext) and the shared      *)
(* transport.  A successful "await Tone.start(); await Tone.loaded();      *)
(* Tone.getContext()" after the old context was disposed yields a context  *)
(* that did not exist before; a failed one throws.  toString() of a        *)
(* library object returns its class name ("Context", "OfflineContext"),    *)
(* so the "unique context identifier" of useAudioContext.ts:371 is the     *)
(* same string for every live context.  Node constructors, connect() and   *)
(* dispose() are taken not to throw.                                       *)
(*                                                                         *)
(* React state is read where the code reads it: a callback works on the    *)
(* values of the render it was created in, so an asynchronous operation    *)
(* keeps the isPlaying / isStarted / masterVolume it was called with.      *)
(* Every await is a point where other handlers may run; awaits whose       *)
(* continuation reads nothing that another handler can change in between   *)
(* are merged with that continuation.                                      *)
(*                                                                         *)
(* The operations are called the way the Index page calls them: the        *)
(* buttons are disabled by controlsDisabled (Index.tsx:60) and             *)
(* handleGenerate checks isLoaded.  Under these callers generateTrack and  *)
(* regenerateTrackFromSavedState are created in a render with isStarted    *)
(* (LoadedIsStarted below), so their branch                                *)
(* "if (!isStarted) await startContext()" is never taken and they begin    *)
(* at the statement after it.                                              *)
(***************************************************************************)
EXTENDS Integers, Sequences, FiniteSets, TLC

\* ---------------------------------------------------------------- bounds
NumInstruments == 2
MaxGenerations == 2
MaxResetCalls == 2
MaxToggles == 1
MaxDownloads == 2
MaxVolumeSets == 1
MaxRestores == 1
MaxStarts == 2
MaxMasterSets == 1
MaxTones == 1
MaxReloads == 1

\* What the user and the timers do in one run: how many times each entry
\* point is used.
NoUse ==
  [generate |-> 0, restore |-> 0, volume |-> 0, reset |-> 0, toggle |-> 0,
   download |-> 0, start |-> 0, master |-> 0, tone |-> 0, reload |-> 0]
GenerationScenario ==
  [NoUse EXCEPT !.generate = MaxGenerations, !.restore = MaxRestores,
                !.volume = MaxVolumeSets]
ResetScenario ==
  [NoUse EXCEPT !.generate = 1, !.reset = MaxResetCalls, !.toggle = MaxToggles]
RestoreScenario ==
  [NoUse EXCEPT !.generate = 1, !.restore = MaxRestores, !.volume = MaxVolumeSets,
                !.reset = 1, !.master = 1]
PlaybackScenario ==
  [NoUse EXCEPT !.generate = 1, !.restore = MaxRestores, !.reset = 1,
                !.toggle = MaxToggles]
ExportScenario ==
  [NoUse EXCEPT !.generate = MaxGenerations, !.download = MaxDownloads]
ActivationScenario ==
  [NoUse EXCEPT !.start = MaxStarts]
MasterScenario ==
  [NoUse EXCEPT !.master = MaxMasterSets, !.reset = MaxResetCalls]
MeterScenario ==
  [NoUse EXCEPT !.generate = 1, !.toggle = MaxToggles + 1, !.tone = MaxTones]
ReloadScenario ==
  [NoUse EXCEPT !.generate = 1, !.volume = MaxVolumeSets, !.restore = MaxRestores,
                !.reload = MaxReloads]
Scenarios ==
  {GenerationScenario, ResetScenario, RestoreScenario, PlaybackScenario, ExportScenario,
   ActivationScenario, MasterScenario, MeterScenario, ReloadScenario}

\* ------------------------------------------------------ program constants
maxRetries == 3
maxAttempts == 3

InstrumentOrder == <<"drums", "bass", "guitar", "keys">>
Order == SubSeq(InstrumentOrder, 1, NumInstruments)
InstrumentIds == {Order[n] : n \in 1..Len(Order)}

DefaultVolume(i) ==
  CASE i = "drums" -> -12
    [] i = "bass" -> -15
    [] i = "guitar" -> -18
    [] OTHER -> -20

DefaultSettings ==
  [genre |-> "rock", mood |-> "energetic", bpm |-> 120, key |-> "C", duration |-> 16]
JazzSettings ==
  [genre |-> "jazz", mood |-> "dark", bpm |-> 90, key |-> "D", duration |-> 16]
SettingsChoices == {JazzSettings}
VolumeChoices == {-30}
MasterChoices == {-20}
SampleUrls == {"default"}

\* ---------------------------------------------------------- null values
NoContext == 0
NoMaster == 0
NoPath == "null"
NoVolume == 1
NoToken == "null"
NoError == "null"

\* ---------------------------------------------------------- messages
InitFailedMsg == "Failed to initialize audio context. Some features may be limited."
StartFailedMsg == "Failed to start audio context. Please try again."
ResetFailedMsg == "Failed to reset audio system after multiple attempts. Please refresh the page."
NoSampleMsg == "No sample found. Using fallback."
LoadFailedMsg == "Failed to load sample. Using fallback."
MismatchMsg == "Audio context mismatch detected. Please refresh the page."
GenerateFailedMsg == "Failed to generate track. Please try again."
RegenerateFailedMsg == "Failed to regenerate track. Please try again."
NoInstrumentsMsg == "Failed to load any instruments. Please try again."
PlaybackErrorMsg == "Playback error"

\* ---------------------------------------------------------- Tone helpers
\* The library's contexts: an id below zero is the OfflineContext of an export.
IsOffline(c) == c < 0

\* context.toString(): Tone's toString() returns the object's class name, the
\* same string for every context of a class.
ContextToString(c) == IF IsOffline(c) THEN "OfflineContext" ELSE "Context"
MasterContext(m) == m

NoChain ==
  [kind |-> "none", context |-> NoContext, gain |-> NoVolume,
   out |-> [to |-> "none", id |-> 0], disposed |-> FALSE, state |-> "stopped",
   epoch |-> 0]

InitialInstrument(i) ==
  [volume |-> DefaultVolume(i), samplePath |-> NoPath, loadingState |-> "idle",
   chain |-> NoChain]

IdleGen ==
  [pc |-> "idle", kind |-> "generate", idx |-> 0, isPlaying |-> FALSE,
   masterVolume |-> NoMaster, currentContextId |-> NoToken, successCount |-> 0,
   settings |-> DefaultSettings]

NoSaved ==
  [present |-> FALSE, trackSettings |-> DefaultSettings,
   instruments |-> [i \in InstrumentIds |-> [volume |-> NoVolume, samplePath |-> NoPath]]]

NoReload ==
  [present |-> FALSE, persisted |-> FALSE, trackSettings |-> DefaultSettings,
   volume |-> [i \in InstrumentIds |-> NoVolume], budget |-> NoUse]

VARIABLES
  toneContext,            \* Tone.getContext(): the library's global context
  nextContext,            \* next unused context id
  acState,                \* useAudioContext state
  masterVolumeRef,
  masterDb,               \* volume.value of the node in masterVolumeRef
  contextIdRef,
  initializingRef,
  retryRef,
  initPc,                 \* initContext effect: "run" | "done"
  resets,                 \* running resetContext calls nobody awaits: attempts -> count
  resetInProgress,        \* Index state
  hrPc,                   \* handleResetAudioSystem: "idle" | "yield" | "toggle" | "race"
  hrAttempts,             \* attempts of the resetContext call the handler awaits
  hrAuto,                 \* the running handler was started by an auto-reset effect
  hrIsPlaying,            \* trackAudio.isPlaying of the render the handler was created in
  hrIsStarted,            \* isStarted of that render
  resetsCompleted,        \* successful resetContext calls so far
  generationInProgressRef,
  gens,                   \* executions of generateTrack / regenerateTrackFromSavedState
  isLoading,
  isPlaying,
  trackError,
  trackSettings,
  isTrackGenerated,
  instruments,            \* instrumentsRef.current
  pending,                \* Tone.Player loads whose onload / onerror has not fired
  volumeKey,              \* sessionStorage trackAlchemy_<id>_volume
  saved,                  \* sessionStorage trackAlchemyState
  settingsRestored,       \* trackSettings holds the object loadSavedState parsed
  meterInterval,          \* meterIntervalRef.current is set
  budget,                 \* uses of each entry point left in this run
  genClicks,              \* handleGenerate runs waiting to call generateTrack, each
                          \* with the isPlaying / masterVolume of its render
  downloadInProgress,     \* Index state
  playbackInProgressRef,
  pbs,                    \* executions of togglePlayback
  transport,              \* Tone.Transport: state and bpm
  exportInProgressRef,
  dls,                    \* downloadTrack calls: "idle" | "start" | "render"
  startReturned,          \* what the last direct startContext() call returned
  masterVolumeKey,        \* sessionStorage trackAlchemy_master_volume
  meterValue,             \* instrumentsRef.current[id].meterValue
  masterMeterValue,       \* useAudioMeter state
  testTone,               \* master bus the sounding test oscillator is connected to
  tonePc,                 \* playTestTone: "idle" | "start"
  stoppedByToggle,        \* playback is stopped and togglePlayback stopped it
  lastTickSilent,         \* the last interval run found playback so stopped and all taps silent
  tickThrew,              \* instruments whose tap read threw in the last interval run
  preReload               \* what was in effect when the page was last reloaded

vars ==
  <<toneContext, nextContext, acState, masterVolumeRef, masterDb, contextIdRef,
    initializingRef,
    retryRef, initPc, resets, resetInProgress, hrPc, hrAttempts, hrAuto, hrIsPlaying,
    hrIsStarted, resetsCompleted,
    generationInProgressRef, gens, isLoading, isPlaying, trackError, trackSettings,
    isTrackGenerated, instruments, pending, volumeKey, saved, settingsRestored,
    meterInterval, budget,
    genClicks, downloadInProgress, playbackInProgressRef, pbs, transport,
    exportInProgressRef, dls, startReturned, masterVolumeKey,
    meterValue, masterMeterValue, testTone, tonePc, stoppedByToggle, lastTickSilent,
    tickThrew, preReload>>

ctxVars ==
  <<toneContext, nextContext, acState, masterVolumeRef, masterDb, contextIdRef,
    initializingRef,
    retryRef, initPc, resetsCompleted>>
handlerVars == <<resetInProgress, hrPc, hrAttempts, hrAuto, hrIsPlaying, hrIsStarted>>
genVars == <<generationInProgressRef, gens, isLoading, genClicks>>
playVars == <<playbackInProgressRef, pbs>>
trackVars ==
  <<isPlaying, trackError, trackSettings, isTrackGenerated, instruments, pending,
    meterInterval, transport>>
countVars == <<budget>>
exportVars == <<exportInProgressRef, dls, downloadInProgress>>
hookVars == <<startReturned, masterVolumeKey, preReload>>
meterVars ==
  <<meterValue, masterMeterValue, testTone, tonePc, stoppedByToggle, lastTickSilent, tickThrew>>
storeVars == <<volumeKey, saved, settingsRestored>>

\* Meter readings (useAudioMeter.ts:165, 206): 0 for a silent waveform, the
\* clamp's upper end for a sounding one.
Silence == 0
ToneLevel == 100

Can(use) == budget[use] > 0
Spend(use) == budget' = [budget EXCEPT ![use] = @ - 1]

GenSlots == 1..2
PlaySlots == 1..2
DlSlots == 1..2

IdlePlayback == [pc |-> "idle", isPlaying |-> FALSE, awaited |-> FALSE]

\* The hooks as mounted: what Init and the bench of the meter callback share.
Mounted ==
  /\ toneContext = 1
  /\ nextContext = 2
  /\ masterVolumeRef = NoMaster
  /\ masterDb = NoVolume
  /\ contextIdRef = NoToken
  /\ initializingRef = TRUE
  /\ retryRef = 0
  /\ initPc = "run"
  /\ resets = [a \in 0..(maxAttempts - 1) |-> 0]
  /\ resetInProgress = FALSE
  /\ hrPc = "idle"
  /\ hrAttempts = 0
  /\ hrAuto = FALSE
  /\ hrIsPlaying = FALSE
  /\ hrIsStarted = FALSE
  /\ resetsCompleted = 0
  /\ generationInProgressRef = FALSE
  /\ gens = [s \in GenSlots |-> IdleGen]
  /\ isLoading = FALSE
  /\ isPlaying = FALSE
  /\ trackError = NoError
  /\ trackSettings = DefaultSettings
  /\ pending = {}
  /\ volumeKey = [i \in InstrumentIds |-> NoVolume]
  /\ saved = NoSaved
  /\ settingsRestored = FALSE
  /\ genClicks = <<>>
  /\ downloadInProgress = FALSE
  /\ playbackInProgressRef = FALSE
  /\ pbs = [s \in PlaySlots |-> IdlePlayback]
  /\ transport = [state |-> "stopped", bpm |-> 120]
  /\ exportInProgressRef = FALSE
  /\ dls = [s \in DlSlots |-> "idle"]
  /\ startReturned = "none"
  /\ masterVolumeKey = NoVolume
  /\ tonePc = "idle"
  /\ stoppedByToggle = FALSE
  /\ lastTickSilent = FALSE
  /\ preReload = NoReload
  /\ tickThrew = {}

Init ==
  /\ Mounted
  /\ acState = [context |-> NoContext, isStarted |-> FALSE, isLoaded |-> FALSE,
                error |-> NoError, masterVolume |-> NoMaster]
  /\ isTrackGenerated = FALSE
  /\ instruments = [i \in InstrumentIds |-> InitialInstrument(i)]
  /\ meterInterval = FALSE
  /\ budget \in Scenarios
  /\ meterValue = [i \in InstrumentIds |-> Silence]
  /\ masterMeterValue = Silence
  /\ testTone = NoMaster


\* ======================================================= useAudioContext
\* The context / master bus pair a successful creation publishes
\* (useAudioContext.ts:365-397 and 665-679).
ContextCreated(c) ==
  [context |-> c, isStarted |-> TRUE, isLoaded |-> TRUE, error |-> NoError,
   masterVolume |-> c]

\* The loudness a new master bus is created with (new Tone.Volume(-12),
\* useAudioContext.ts:375 and 669).
DefaultMasterDb == -12

\* Restore of the saved master volume (useAudioContext.ts:378-386)
RestoredMasterVolume(current) ==
  IF masterVolumeKey # NoVolume THEN masterVolumeKey ELSE current

\* initContext (useAudioContext.ts:332-438): one pass, from the disposal of
\* the master bus it finds through "await Tone.start(); await Tone.loaded()"
\* to what follows it; a failed pass below the retry bound is run again by
\* the 1000 ms timer.
InitAttempt(ok) ==
  /\ initPc = "run"
  /\ IF ok
       THEN /\ toneContext' = nextContext
            /\ nextContext' = nextContext + 1
            /\ contextIdRef' = ContextToString(nextContext)
            /\ masterVolumeRef' = nextContext
            /\ masterDb' = RestoredMasterVolume(DefaultMasterDb)
            /\ retryRef' = 0
            /\ acState' = ContextCreated(nextContext)
            /\ initPc' = "done"
            /\ initializingRef' = FALSE
       ELSE /\ retryRef' = retryRef + 1
            /\ masterVolumeRef' = NoMaster
            /\ masterDb' = NoVolume
            /\ IF retryRef + 1 < maxRetries
                 THEN /\ initPc' = "run"
                      /\ initializingRef' = TRUE
                      /\ acState' = acState
                 ELSE /\ initPc' = "done"
                      /\ initializingRef' = FALSE
                      /\ acState' = [acState EXCEPT !.error = InitFailedMsg,
                                                    !.isLoaded = FALSE,
                                                    !.isStarted = FALSE]
            /\ UNCHANGED <<toneContext, nextContext, contextIdRef>>
  /\ UNCHANGED <<resetsCompleted, resets>>
  /\ UNCHANGED <<handlerVars, genVars, playVars, trackVars, storeVars, countVars, exportVars, hookVars, meterVars>>

\* resetContext up to its first await (useAudioContext.ts:603-650): the state
\* it leaves in acState.  It sets initializingRef and never reads it.
AcAfterResetCall(ac) == [ac EXCEPT !.isLoaded = FALSE, !.error = NoError]

\* Number of resetContext calls between their first await and their return.
RECURSIVE SumUpTo(_, _)
SumUpTo(f, n) == IF n < 0 THEN 0 ELSE f[n] + SumUpTo(f, n - 1)

RunningResets ==
  SumUpTo(resets, maxAttempts - 1) + (IF hrPc = "race" THEN 1 ELSE 0)

\* sessionStorage.removeItem('trackAlchemyState') after the retry loop of
\* resetContext (useAudioContext.ts:696-698): what it leaves of the record.
RemoveTrackStateSkipped(record) == record
RemoveTrackState(record) == NoSaved

\* One attempt of the retry loop of resetContext (useAudioContext.ts:657-720)
\* made by a call that has made `a` attempts so far.  finished' tells whether
\* the call returns.
ResetAttemptEffect(a, ok) ==
  IF ok
    THEN /\ toneContext' = nextContext
         /\ nextContext' = nextContext + 1
         /\ masterVolumeRef' = nextContext
         /\ masterDb' = DefaultMasterDb
         /\ contextIdRef' = ContextToString(nextContext)
         /\ acState' = ContextCreated(nextContext)
         /\ saved' = RemoveTrackState(saved)
         /\ resetsCompleted' = resetsCompleted + 1
         /\ initializingRef' = FALSE
    ELSE /\ UNCHANGED <<toneContext, nextContext, masterVolumeRef, masterDb, contextIdRef,
                        resetsCompleted>>
         /\ IF a + 1 < maxAttempts
              THEN UNCHANGED <<acState, saved, initializingRef>>
              ELSE /\ saved' = RemoveTrackState(saved)
                   /\ acState' = [acState EXCEPT !.isLoaded = FALSE,
                                                 !.error = ResetFailedMsg]
                   /\ initializingRef' = FALSE

ResetReturns(a, ok) == ok \/ a + 1 >= maxAttempts

\* An attempt of a resetContext call that no handler awaits.
ResetAttempt(a, ok) ==
  /\ resets[a] > 0
  /\ ResetAttemptEffect(a, ok)
  /\ resets' = IF ResetReturns(a, ok)
                 THEN [resets EXCEPT ![a] = @ - 1]
                 ELSE [resets EXCEPT ![a] = @ - 1, ![a + 1] = @ + 1]
  /\ UNCHANGED <<retryRef, initPc, volumeKey, settingsRestored>>
  /\ UNCHANGED <<handlerVars, genVars, playVars, trackVars, countVars, exportVars, hookVars, meterVars>>


\* A resetContext() call made by a handler that does not await it: the part up
\* to the first await runs with the caller, the retry loop runs later.  `ac` is
\* acState after the caller's own updates.
SpawnReset(ac) ==
  /\ resets' = [resets EXCEPT ![0] = @ + 1]
  /\ initializingRef' = TRUE
  /\ masterVolumeRef' = NoMaster
  /\ masterDb' = NoVolume
  /\ acState' = AcAfterResetCall(ac)
  /\ UNCHANGED <<toneContext, nextContext, contextIdRef, retryRef, initPc, resetsCompleted>>

\* The outcome of startContext() when the caller saw isStarted = FALSE
\* (useAudioContext.ts:453-494): Tone.start() raced against the 5 s timer.
\* On failure the error is set and resetContext() is called, whose part up to
\* its first await runs at once.
StartContextEffect(ok) ==
  IF ok
    THEN /\ acState' = [acState EXCEPT !.isStarted = TRUE]
         /\ UNCHANGED <<toneContext, nextContext, masterVolumeRef, masterDb, contextIdRef,
                        initializingRef, retryRef, initPc, resetsCompleted, resets>>
    ELSE SpawnReset([acState EXCEPT !.error = StartFailedMsg])

\* setMasterVolume (useAudioContext.ts:497-511)
SetMasterVolume(db) ==
  /\ Can("master")
  /\ Spend("master")
  /\ IF masterVolumeRef # NoMaster
       THEN /\ masterDb' = db
            /\ masterVolumeKey' = db
            /\ acState' = [acState EXCEPT !.masterVolume = masterVolumeRef]
       ELSE UNCHANGED <<masterDb, masterVolumeKey, acState>>
  /\ UNCHANGED <<toneContext, nextContext, masterVolumeRef, contextIdRef, initializingRef,
                 retryRef, initPc, resetsCompleted, resets, startReturned, preReload>>
  /\ UNCHANGED <<handlerVars, genVars, playVars, trackVars, storeVars, exportVars, meterVars>>

\* What startContext() returns (useAudioContext.ts:455-458, 472, 492): nothing
\* when the context was started already, true after activation, false from
\* the catch block.
StartContextResult(wasStarted, ok) ==
  IF wasStarted THEN "undefined" ELSE IF ok THEN "true" ELSE "false"

\* startContext() called directly by a user of the hook.
StartContext(ok) ==
  /\ Can("start")
  /\ Spend("start")
  /\ acState.isStarted => ok
  /\ startReturned' = StartContextResult(acState.isStarted, ok)
  /\ UNCHANGED <<masterVolumeKey, preReload>>
  /\ IF acState.isStarted
       THEN UNCHANGED <<ctxVars, resets>>
       ELSE StartContextEffect(ok)
  /\ UNCHANGED <<handlerVars, genVars, playVars, trackVars, storeVars, exportVars, meterVars>>

\* ============================================================ useTrackAudio
\* setError(prev => prev || msg)
KeepErrorDrops(prev, msg) == prev
KeepError(prev, msg) == IF prev # NoError THEN prev ELSE msg

\* Cleanup of the effect keyed on isPlaying (useTrackAudio.ts:101-124): when
\* isPlaying changes, every node of every instrument is disposed and stays on
\* the track.
DisposeAll(insts) ==
  [i \in InstrumentIds |->
     IF insts[i].chain.kind # "none"
       THEN [insts[i] EXCEPT !.chain.disposed = TRUE]
       ELSE insts[i]]

CleanupOnIsPlaying(insts, old, new) == IF old # new THEN DisposeAll(insts) ELSE insts

\* The same cleanup, created in a render with isPlaying true, first stops the
\* transport (useTrackAudio.ts:104-105).
TransportAfterCleanup(state, old, new) == IF old /\ ~new THEN "stopped" ELSE state

\* useTrackAudio.ts:311-341 and 169-201
Teardown(insts) ==
  [i \in InstrumentIds |-> [insts[i] EXCEPT !.chain = NoChain, !.loadingState = "loading"]]

\* useTrackState save effect (part_016:22-41)
Snapshot(ts, insts) ==
  [present |-> TRUE, trackSettings |-> ts,
   instruments |-> [i \in InstrumentIds |->
                      [volume |-> insts[i].volume, samplePath |-> insts[i].samplePath]]]

\* The single-flight guard shared by generateTrack and
\* regenerateTrackFromSavedState (useTrackAudio.ts:271, 129).
GenerationAllowedNoGuard == TRUE
GenerationAllowed == ~generationInProgressRef

FreeGenSlot ==
  CHOOSE s \in GenSlots : gens[s].pc = "idle" /\ \A t \in GenSlots : t < s => gens[t].pc # "idle"

ActiveGens == {s \in GenSlots : gens[s].pc # "idle"}

NewGen(kind, settings, wasPlaying, master) ==
  [pc |-> "yield", kind |-> kind, idx |-> 0, isPlaying |-> wasPlaying,
   masterVolume |-> master, currentContextId |-> NoToken,
   successCount |-> 0, settings |-> settings]

\* generateTrack from setIsLoading(true) to the yield (useTrackAudio.ts:284-309),
\* regenerateTrackFromSavedState likewise (148-167), on the instruments `insts`.
GenBeginEffect(kind, wasPlaying, settings, insts, ts) ==
  /\ isLoading' = TRUE
  /\ trackError' = NoError
  /\ isPlaying' = IF wasPlaying THEN FALSE ELSE isPlaying
  /\ transport' = [state |-> IF wasPlaying THEN "stopped" ELSE transport.state,
                   bpm |-> IF kind = "generate" THEN settings.bpm ELSE transport.bpm]
  /\ trackSettings' = IF kind = "generate" THEN settings ELSE ts
  /\ instruments' = CleanupOnIsPlaying(insts, isPlaying, isPlaying')

\* Index.tsx:60 (isPending lasts for the synchronous transition only and
\* samplesLoaded is set on mount)
controlsDisabled == resetInProgress \/ isLoading \/ downloadInProgress

\* handleGenerate (Index.tsx:129-155) up to its yield
HandleGenerate ==
  /\ Can("generate")
  /\ acState.isLoaded
  /\ ~controlsDisabled
  /\ Spend("generate")
  /\ genClicks' = Append(genClicks, [isPlaying |-> isPlaying,
                                     masterVolume |-> acState.masterVolume])
  /\ UNCHANGED <<generationInProgressRef, gens, isLoading>>
  /\ UNCHANGED <<ctxVars, resets, handlerVars, playVars, trackVars, storeVars, exportVars, hookVars, meterVars>>

\* setTrackSettings(settings) of generateTrack re-runs the save effect
\* (part_016:22-41) when it stores another object than the one held: the
\* user edited the settings, or loadSavedState had stored a parsed record.
SettingsObjectChanges(settings) == settings # trackSettings \/ settingsRestored

\* generateTrack(settings) accepted (useTrackAudio.ts:268-309)
GenerateTrack(settings) ==
  /\ genClicks # <<>>
  /\ GenerationAllowed
  /\ \E s \in GenSlots : gens[s].pc = "idle"
  /\ genClicks' = Tail(genClicks)
  /\ generationInProgressRef' = TRUE
  /\ gens' = [gens EXCEPT ![FreeGenSlot] =
                 NewGen("generate", settings, Head(genClicks).isPlaying,
                        Head(genClicks).masterVolume)]
  /\ GenBeginEffect("generate", Head(genClicks).isPlaying, settings, instruments,
                    trackSettings)
  /\ saved' = IF isTrackGenerated /\ SettingsObjectChanges(settings)
                THEN Snapshot(settings, instruments) ELSE saved
  /\ settingsRestored' = FALSE
  /\ UNCHANGED <<ctxVars, resets, handlerVars, playVars, countVars, exportVars, hookVars, meterVars>>
  /\ UNCHANGED <<isTrackGenerated, pending, meterInterval, volumeKey>>

\* generateTrack(settings) while a generation is in progress (271-274)
GenerateRejected ==
  /\ genClicks # <<>>
  /\ ~GenerationAllowed
  /\ genClicks' = Tail(genClicks)
  /\ UNCHANGED <<generationInProgressRef, gens, isLoading>>
  /\ UNCHANGED <<ctxVars, resets, handlerVars, playVars, trackVars, storeVars, countVars,
                 exportVars, hookVars, meterVars>>

\* after the yield: teardown and getContextId() (311-350, 169-210)
GenYield(s) ==
  /\ gens[s].pc = "yield"
  /\ instruments' = Teardown(instruments)
  /\ gens' = [gens EXCEPT ![s].pc = "setup", ![s].idx = 1,
                          ![s].currentContextId = contextIdRef]
  /\ UNCHANGED <<ctxVars, resets, handlerVars, playVars, storeVars, countVars, exportVars, hookVars, meterVars>>
  /\ UNCHANGED <<generationInProgressRef, isLoading, genClicks, isPlaying,
                 trackError, trackSettings, isTrackGenerated, pending, meterInterval,
                 transport>>


\* ======================================================= useInstrumentSetup
\* The load of a Tone.Player in flight, with the nodes its closure holds
\* (useInstrumentSetup.ts:102-174).  epoch counts the resets completed when
\* the nodes were created.
NewLoad(i, gain, master) ==
  [inst |-> i, currentContext |-> toneContext, playerContext |-> toneContext,
   volumeContext |-> toneContext, analyserContext |-> toneContext, gain |-> gain,
   masterVolume |-> master, epoch |-> resetsCompleted]

NoLoad ==
  [inst |-> "", currentContext |-> NoContext, playerContext |-> NoContext,
   volumeContext |-> NoContext, analyserContext |-> NoContext, gain |-> NoVolume,
   masterVolume |-> NoMaster, epoch |-> 0]

\* Volume restore before the nodes are created (useInstrumentSetup.ts:90-99)
RestoredVolume(i, current) == IF volumeKey[i] # NoVolume THEN volumeKey[i] ELSE current

\* The gain the new Tone.Volume is created with (useInstrumentSetup.ts:115)
BuildGain(i, vol) == vol

\* Context check before the nodes are created (useInstrumentSetup.ts:108)
ContextMismatch(currentContextId) ==
  currentContextId # NoToken /\ ContextToString(toneContext) # currentContextId

\* setupInstrument (useInstrumentSetup.ts:53-265) for instrument i with
\* resolver answer r: the track afterwards, the error slot afterwards, what the
\* call returned ("null", "nodes") or that it threw CONTEXT_MISMATCH ("throw"),
\* and the load it started.
SetupInstrument(i, r, master, currentContextId, err) ==
  LET inst == instruments[i]
      url == IF inst.samplePath # NoPath THEN inst.samplePath ELSE r
      vol == RestoredVolume(i, inst.volume)
  IN IF url = NoPath
       THEN [track |-> [inst EXCEPT !.loadingState = "error", !.samplePath = NoPath],
             error |-> KeepError(err, NoSampleMsg), outcome |-> "null", load |-> NoLoad]
       ELSE IF ContextMismatch(currentContextId)
         THEN [track |-> [inst EXCEPT !.loadingState = "error", !.samplePath = url,
                                      !.volume = vol],
               error |-> MismatchMsg, outcome |-> "throw", load |-> NoLoad]
         ELSE [track |-> [inst EXCEPT !.loadingState = "loading", !.samplePath = url,
                                      !.volume = vol],
               error |-> err, outcome |-> "nodes",
               load |-> NewLoad(i, BuildGain(i, vol), master)]

ResolverAnswers(i) ==
  IF instruments[i].samplePath # NoPath THEN {instruments[i].samplePath}
  ELSE SampleUrls \cup {NoPath}

\* The success tally (useTrackAudio.ts:366): what counts as one success.
CountsAsSuccess(outcome) == outcome = "nodes"

\* The finally block of generateTrack / regenerateTrackFromSavedState
\* (useTrackAudio.ts:393-397, 245-249): the value it leaves in the flag.
GenerationFinallyKeeps(inProgress) == inProgress
GenerationFinally(inProgress) == FALSE

\* setIsLoading(false) in the same finally block (useTrackAudio.ts:394, 246).
LoadingFinallyKeeps(loading) == loading
LoadingFinally(loading) == FALSE

\* startMeterMonitoring (useAudioMeter.ts:137-150): an interval that exists is
\* cleared and a new one is set, so the interval runs afterwards.
StartMeterMonitoringSkipped(interval) == interval
StartMeterMonitoring(interval) == TRUE

\* One pass of the instrument loop of generateTrack / regenerate
\* (useTrackAudio.ts:356-397, 216-249), with the tally, catch and finally
\* when the pass is the last one or setupInstrument throws.
GenSetup(s, r) ==
  /\ gens[s].pc = "setup"
  /\ LET g == gens[s]
         i == Order[g.idx]
         res == SetupInstrument(i, r, g.masterVolume, g.currentContextId, trackError)
         insts1 == [instruments EXCEPT ![i] = res.track]
         succ == g.successCount + (IF CountsAsSuccess(res.outcome) THEN 1 ELSE 0)
         last == g.idx = Len(Order)
     IN /\ r \in ResolverAnswers(i)
        /\ instruments' = insts1
        /\ pending' = IF res.outcome = "nodes" THEN pending \cup {res.load} ELSE pending
        /\ IF res.outcome = "throw"
             THEN /\ trackError' = IF g.kind = "generate" THEN GenerateFailedMsg
                                   ELSE RegenerateFailedMsg
                  /\ meterInterval' = StartMeterMonitoring(meterInterval)
                  /\ SpawnReset(acState)
                  /\ isLoading' = LoadingFinally(isLoading)
                  /\ generationInProgressRef' = GenerationFinally(generationInProgressRef)
                  /\ gens' = [gens EXCEPT ![s] = IdleGen]
                  /\ UNCHANGED <<isTrackGenerated, saved>>
             ELSE /\ UNCHANGED <<ctxVars, resets>>
                  /\ IF last
                       THEN /\ isTrackGenerated' = (isTrackGenerated \/ succ > 0)
                            /\ trackError' = IF succ > 0 THEN res.error ELSE NoInstrumentsMsg
                            /\ saved' = IF succ > 0 /\ ~isTrackGenerated
                                          THEN Snapshot(trackSettings, insts1) ELSE saved
                            /\ meterInterval' = StartMeterMonitoring(meterInterval)
                            /\ isLoading' = LoadingFinally(isLoading)
                            /\ generationInProgressRef' =
                                 GenerationFinally(generationInProgressRef)
                            /\ gens' = [gens EXCEPT ![s] = IdleGen]
                       ELSE /\ gens' = [gens EXCEPT ![s].idx = g.idx + 1,
                                                    ![s].successCount = succ]
                            /\ trackError' = res.error
                            /\ UNCHANGED <<isTrackGenerated, saved, meterInterval,
                                           isLoading, generationInProgressRef>>
  /\ UNCHANGED <<handlerVars, playVars, countVars, exportVars, hookVars, meterVars>>
  /\ UNCHANGED <<genClicks, isPlaying, trackSettings, transport, volumeKey,
                 settingsRestored>>

\* Where a chain's gain stage is connected (useInstrumentSetup.ts:144-149 and
\* 216-220): the master bus handed to setupInstrument if it lives in `context`,
\* else the destination of the library's current context.
ConnectTarget(master, context) ==
  IF master # NoMaster /\ MasterContext(master) = context
    THEN [to |-> "master", id |-> master]
    ELSE [to |-> "destination", id |-> toneContext]

\* The re-check before connecting (useInstrumentSetup.ts:130-136)
NodesInCurrentContext(p) ==
  /\ p.playerContext = p.currentContext
  /\ p.volumeContext = p.currentContext
  /\ p.analyserContext = p.currentContext

\* handleLoadError (useInstrumentSetup.ts:176-243): the fallback oscillator chain
FallbackChainMissing(p) == NoChain
FallbackChain(p) ==
  [kind |-> "oscillator", context |-> toneContext, gain |-> instruments[p.inst].volume,
   out |-> ConnectTarget(p.masterVolume, toneContext), disposed |-> FALSE,
   state |-> "stopped", epoch |-> resetsCompleted]

\* onload's chain (useInstrumentSetup.ts:138-155)
LoadedChain(p) ==
  [kind |-> "player", context |-> p.currentContext, gain |-> p.gain,
   out |-> ConnectTarget(p.masterVolume, p.currentContext), disposed |-> FALSE,
   state |-> "stopped", epoch |-> p.epoch]

HandleLoadError(p) ==
  /\ instruments' = [instruments EXCEPT ![p.inst].loadingState = "error",
                                        ![p.inst].chain = FallbackChain(p)]
  /\ trackError' = KeepError(trackError, LoadFailedMsg)

\* volumeNode.connect(Tone.getDestination()) (useInstrumentSetup.ts:148) throws
\* when the library's context is no longer the one the nodes were created in:
\* Web Audio refuses to connect nodes of two contexts (InvalidAccessError).
\* The catch at 168-171 hands the error to handleLoadError.
ConnectionThrowsNever(p) == FALSE
ConnectionThrows(p) ==
  LET target == ConnectTarget(p.masterVolume, p.currentContext)
  IN target.to = "destination" /\ target.id # p.currentContext

\* onload (useInstrumentSetup.ts:126-172)
LoadOk(p) ==
  /\ p \in pending
  /\ pending' = pending \ {p}
  /\ IF NodesInCurrentContext(p) /\ ~ConnectionThrows(p)
       THEN /\ instruments' = [instruments EXCEPT ![p.inst].loadingState = "loaded",
                                                  ![p.inst].chain = LoadedChain(p)]
            /\ UNCHANGED trackError
       ELSE HandleLoadError(p)
  /\ UNCHANGED <<ctxVars, resets, handlerVars, genVars, playVars, storeVars, countVars, exportVars, hookVars, meterVars>>
  /\ UNCHANGED <<isPlaying, trackSettings, isTrackGenerated, meterInterval, transport>>

\* onerror (useInstrumentSetup.ts:173, 176-243)
LoadFail(p) ==
  /\ p \in pending
  /\ pending' = pending \ {p}
  /\ HandleLoadError(p)
  /\ UNCHANGED <<ctxVars, resets, handlerVars, genVars, playVars, storeVars, countVars, exportVars, hookVars, meterVars>>
  /\ UNCHANGED <<isPlaying, trackSettings, isTrackGenerated, meterInterval, transport>>

\* setInstrumentVolume (useInstrumentSetup.ts:11-50)
SetInstrumentVolume(i, v) ==
  /\ Can("volume")
  /\ Spend("volume")
  /\ instruments' =
       [instruments EXCEPT ![i].volume = v,
                           ![i].chain = IF @.kind # "none" THEN [@ EXCEPT !.gain = v] ELSE @]
  /\ volumeKey' = [volumeKey EXCEPT ![i] = v]
  /\ UNCHANGED <<ctxVars, resets, handlerVars, genVars, playVars, saved, settingsRestored,
                 exportVars, hookVars, meterVars>>
  /\ UNCHANGED <<isPlaying, trackError, trackSettings, isTrackGenerated, pending,
                 meterInterval, transport>>


\* loadSavedState (part_016:44-88) run by the effect of useTrackAudio.ts:253-257,
\* with the regenerateTrackFromSavedState() call it ends with
\* (useTrackAudio.ts:127-167).  The effect's dependencies change with every
\* render (loadSavedState and the startContext wrapper of Index.tsx:36 are new
\* functions each time), so it may run whenever the context is started.
RestoredInstruments(insts) ==
  [i \in InstrumentIds |->
     [insts[i] EXCEPT !.volume = saved.instruments[i].volume,
                      !.samplePath = saved.instruments[i].samplePath,
                      !.loadingState = "idle"]]

LoadSavedState ==
  /\ acState.isStarted
  /\ saved.present
  /\ Can("restore")
  /\ GenerationAllowed => \E s \in GenSlots : gens[s].pc = "idle"
  /\ Spend("restore")
  /\ isTrackGenerated' = TRUE
  /\ IF GenerationAllowed
       THEN /\ generationInProgressRef' = TRUE
            /\ gens' = [gens EXCEPT ![FreeGenSlot] =
                          NewGen("regenerate", saved.trackSettings, isPlaying,
                                 acState.masterVolume)]
            /\ GenBeginEffect("regenerate", isPlaying, saved.trackSettings,
                              RestoredInstruments(instruments), saved.trackSettings)
       ELSE /\ instruments' = RestoredInstruments(instruments)
            /\ trackSettings' = saved.trackSettings
            /\ UNCHANGED <<generationInProgressRef, gens, isLoading, trackError,
                           isPlaying, transport>>
  /\ settingsRestored' = TRUE
  /\ UNCHANGED <<ctxVars, resets, handlerVars, playVars, volumeKey, saved, exportVars, hookVars, meterVars>>
  /\ UNCHANGED <<genClicks, pending, meterInterval>>

\* ------------------------------------------------------------ togglePlayback
PlaybackAllowedNoGuard == TRUE
PlaybackAllowed == ~playbackInProgressRef

FreePlaySlot ==
  CHOOSE s \in PlaySlots : pbs[s].pc = "idle" /\ \A t \in PlaySlots : t < s => pbs[t].pc # "idle"

ActivePlaybacks == {s \in PlaySlots : pbs[s].pc # "idle"}

\* togglePlayback up to its first await (useTrackAudio.ts:401-424)
StartToggle(wasPlaying, started, awaited) ==
  /\ playbackInProgressRef' = TRUE
  /\ pbs' = [pbs EXCEPT ![FreePlaySlot] =
               [pc |-> IF started THEN "yield" ELSE "start",
                isPlaying |-> wasPlaying, awaited |-> awaited]]

\* The play button (Index.tsx:394-397)
TogglePlayback ==
  /\ Can("toggle")
  /\ ~controlsDisabled
  /\ isTrackGenerated
  /\ PlaybackAllowed
  /\ \E s \in PlaySlots : pbs[s].pc = "idle"
  /\ Spend("toggle")
  /\ StartToggle(isPlaying, acState.isStarted, FALSE)
  /\ UNCHANGED <<ctxVars, resets, handlerVars, genVars, trackVars, storeVars, exportVars, hookVars, meterVars>>

\* The play button while a togglePlayback call is in progress: the guard
\* returns at once (useTrackAudio.ts:404-407)
ToggleRejected ==
  /\ Can("toggle")
  /\ ~controlsDisabled
  /\ isTrackGenerated
  /\ ~PlaybackAllowed
  /\ Spend("toggle")
  /\ UNCHANGED <<ctxVars, resets, handlerVars, genVars, playVars, trackVars, storeVars,
                 exportVars, hookVars, meterVars>>

\* resumed after "await startContext()" (413-421); startContext catches its
\* own errors
PlaybackStartContext(s, ok) ==
  /\ pbs[s].pc = "start"
  /\ StartContextEffect(ok)
  /\ pbs' = [pbs EXCEPT ![s].pc = "yield"]
  /\ UNCHANGED <<playbackInProgressRef, handlerVars, genVars, trackVars, storeVars,
                 countVars, exportVars, hookVars, meterVars>>

\* after the yield (426-476): pause, or Tone.Transport.start() which may throw;
\* then the cleanup of the isPlaying effect when isPlaying changed.  The loop
\* that re-creates missing players (431-448) finds none: no instrument is
\* 'loaded' without a player (LoadedHasPlayer).
PlaybackYield(s, startOk) ==
  /\ pbs[s].pc = "yield"
  /\ pbs[s].isPlaying => startOk
  /\ playbackInProgressRef' = FALSE
  /\ pbs' = [pbs EXCEPT ![s] = IdlePlayback]
  /\ IF pbs[s].isPlaying
       THEN /\ isPlaying' = FALSE
            /\ transport' =
                 [transport EXCEPT !.state =
                    TransportAfterCleanup(IF @ = "started" THEN "paused" ELSE @,
                                          isPlaying, FALSE)]
            /\ instruments' = CleanupOnIsPlaying(instruments, isPlaying, FALSE)
            /\ UNCHANGED <<trackError, ctxVars, resets>>
       ELSE IF startOk
         THEN /\ isPlaying' = TRUE
              /\ transport' = [transport EXCEPT !.state = "started"]
              /\ instruments' = CleanupOnIsPlaying(instruments, isPlaying, TRUE)
              /\ UNCHANGED <<trackError, ctxVars, resets>>
         ELSE /\ trackError' = PlaybackErrorMsg
              /\ SpawnReset(acState)
              /\ UNCHANGED <<isPlaying, transport, instruments>>
  /\ stoppedByToggle' = IF isPlaying' THEN FALSE ELSE IF isPlaying THEN TRUE ELSE stoppedByToggle
  /\ UNCHANGED <<handlerVars, genVars, storeVars, countVars, exportVars, hookVars>>
  /\ UNCHANGED <<trackSettings, isTrackGenerated, pending, meterInterval>>
  /\ UNCHANGED <<meterValue, masterMeterValue, testTone, tonePc, lastTickSilent, tickThrew>>


\* ------------------------------------------- Index: handleResetAudioSystem
\* The auto-reset effects (Index.tsx:309-338): after an initialisation error
\* (1.5 s timer), and while the context is not loaded and no reset handler
\* runs (10 s timer).
AutoResetDue ==
  \/ acState.error = InitFailedMsg
  \/ ~acState.isLoaded /\ ~resetInProgress

\* Index.tsx:63-82
HandleResetStart(auto) ==
  /\ Can("reset")
  /\ ~resetInProgress
  /\ resetInProgress' = TRUE
  /\ hrPc' = "yield"
  /\ Spend("reset")
  /\ hrAuto' = auto
  /\ hrIsPlaying' = isPlaying
  /\ hrIsStarted' = acState.isStarted
  /\ UNCHANGED hrAttempts
  /\ UNCHANGED <<ctxVars, resets, genVars, playVars, trackVars, storeVars, exportVars, hookVars, meterVars>>

\* The reset button (Index.tsx:380-390) and the "Reset Audio" action of the
\* error and not-ready toasts (Index.tsx:132-140, 287-295)
ResetOffered == ~controlsDisabled \/ acState.error # NoError \/ ~acState.isLoaded

ResetButton == ResetOffered /\ HandleResetStart(FALSE)

AutoReset == AutoResetDue /\ HandleResetStart(TRUE)

\* The handler's own resetContext() call (Index.tsx:90), up to its first await
HandlerCallsReset ==
  /\ hrPc' = "race"
  /\ hrAttempts' = 0
  /\ initializingRef' = TRUE
  /\ masterVolumeRef' = NoMaster
  /\ masterDb' = NoVolume
  /\ acState' = AcAfterResetCall(acState)
  /\ UNCHANGED <<toneContext, nextContext, contextIdRef, retryRef, initPc,
                 resetsCompleted, resets>>

\* Index.tsx:84-94: stop playback first when playing, then reset
HandleResetYield ==
  /\ hrPc = "yield"
  /\ hrIsPlaying' = FALSE
  /\ hrIsStarted' = FALSE
  /\ IF hrIsPlaying /\ PlaybackAllowed /\ (\E s \in PlaySlots : pbs[s].pc = "idle")
       THEN /\ StartToggle(hrIsPlaying, hrIsStarted, TRUE)
            /\ hrPc' = "toggle"
            /\ UNCHANGED <<hrAttempts, ctxVars, resets>>
       ELSE /\ HandlerCallsReset
            /\ UNCHANGED <<playbackInProgressRef, pbs>>
  /\ UNCHANGED <<resetInProgress, hrAuto>>
  /\ UNCHANGED <<genVars, trackVars, storeVars, countVars, exportVars, hookVars, meterVars>>

HandleResetAfterToggle ==
  /\ hrPc = "toggle"
  /\ \A s \in PlaySlots : ~pbs[s].awaited
  /\ HandlerCallsReset
  /\ UNCHANGED <<resetInProgress, hrAuto, hrIsPlaying, hrIsStarted>>
  /\ UNCHANGED <<genVars, playVars, trackVars, storeVars, countVars, exportVars, hookVars, meterVars>>

\* An attempt of the resetContext call the handler awaits; when the call
\* returns the handler finishes (Index.tsx:96-125).
HandleResetAttempt(ok) ==
  /\ hrPc = "race"
  /\ ResetAttemptEffect(hrAttempts, ok)
  /\ IF ResetReturns(hrAttempts, ok)
       THEN /\ hrPc' = "idle"
            /\ hrAttempts' = 0
            /\ hrAuto' = FALSE
            /\ resetInProgress' = FALSE
       ELSE /\ hrAttempts' = hrAttempts + 1
            /\ UNCHANGED <<hrPc, hrAuto, resetInProgress>>
  /\ UNCHANGED <<hrIsPlaying, hrIsStarted, resets, retryRef, initPc, volumeKey,
                 settingsRestored>>
  /\ UNCHANGED <<genVars, playVars, trackVars, countVars, exportVars, hookVars, meterVars>>

\* The 2 s timer of Index.tsx:91-98 wins the race: the handler gives up and
\* the resetContext call goes on on its own.
HandleResetTimeout ==
  /\ hrPc = "race"
  /\ resets' = [resets EXCEPT ![hrAttempts] = @ + 1]
  /\ hrPc' = "idle"
  /\ hrAttempts' = 0
  /\ hrAuto' = FALSE
  /\ resetInProgress' = FALSE
  /\ UNCHANGED <<ctxVars, hrIsPlaying, hrIsStarted>>
  /\ UNCHANGED <<genVars, playVars, trackVars, storeVars, countVars, exportVars, hookVars, meterVars>>

\* ----------------------------------------------------------- useAudioExporter
ExportAllowedNoGuard == TRUE
ExportAllowed == ~exportInProgressRef

FreeDlSlot ==
  CHOOSE s \in DlSlots : dls[s] = "idle" /\ \A t \in DlSlots : t < s => dls[t] # "idle"

ActiveDownloads == {s \in DlSlots : dls[s] # "idle"}

\* handleDownloadTrack (Index.tsx:208-223) and downloadTrack up to its first
\* await (useAudioExporter.ts:16-39).
DownloadTrack ==
  /\ Can("download")
  /\ ~controlsDisabled
  /\ isTrackGenerated
  /\ ExportAllowed
  /\ downloadInProgress' = TRUE
  /\ exportInProgressRef' = TRUE
  /\ dls' = [dls EXCEPT ![FreeDlSlot] = "start"]
  /\ Spend("download")
  /\ UNCHANGED <<ctxVars, resets, handlerVars, genVars, playVars, trackVars, storeVars,
                 hookVars, meterVars>>

\* downloadTrack of the hook (useTrackAudio.ts:485-490, 512) called while an
\* export runs; the button of Index is disabled then, so the call comes from
\* another caller of the hook.  The guard (useAudioExporter.ts:16-20) returns
\* { success: false } before anything is touched.
DownloadDuringExport ==
  /\ Can("download")
  /\ ActiveDownloads # {}
  /\ Spend("download")
  /\ IF ExportAllowed
       THEN /\ exportInProgressRef' = TRUE
            /\ dls' = [dls EXCEPT ![FreeDlSlot] = IF isTrackGenerated THEN "start" ELSE "idle"]
       ELSE UNCHANGED <<exportInProgressRef, dls>>
  /\ UNCHANGED downloadInProgress
  /\ UNCHANGED <<ctxVars, resets, handlerVars, genVars, playVars, trackVars, storeVars,
                 hookVars, meterVars>>

\* Tone.setContext(offlineContext) and the offline nodes (41-80)
DownloadRender(s) ==
  /\ dls[s] = "start"
  /\ dls' = [dls EXCEPT ![s] = "render"]
  /\ toneContext' = -nextContext
  /\ nextContext' = nextContext + 1
  /\ UNCHANGED <<acState, masterVolumeRef, masterDb, contextIdRef, initializingRef, retryRef,
                 initPc, resetsCompleted, resets>>
  /\ UNCHANGED <<exportInProgressRef, downloadInProgress>>
  /\ UNCHANGED <<handlerVars, genVars, playVars, trackVars, storeVars, countVars,
                 hookVars, meterVars>>

\* render() resolved or threw (84-131); finally: Tone.setContext(Tone.getContext())
DownloadFinish(s) ==
  /\ dls[s] = "render"
  /\ dls' = [dls EXCEPT ![s] = "idle"]
  /\ exportInProgressRef' = FALSE
  /\ downloadInProgress' = FALSE
  /\ UNCHANGED <<ctxVars, resets, handlerVars, genVars, playVars, trackVars, storeVars,
                 countVars, hookVars, meterVars>>

\* ============================================================ useAudioMeter
\* The interval of startMeterMonitoring runs: a generation started it
\* (useTrackAudio.ts:232, 238, 379, 385) or the effect of useTrackAudio.ts:260-265
\* did, which restarts it at every change of isPlaying or masterMeterValue.
MeterMonitoring == meterInterval \/ isTrackGenerated

\* What an instrument's analysis tap reads: the source of its chain sounds only
\* while it is started and the nodes are not disposed.
InstrumentLevel(chain) ==
  IF chain.state = "started" /\ ~chain.disposed THEN ToneLevel ELSE Silence

\* The master analyser is connected to the master bus of the hook state
\* (useTrackAudio.ts:96-98, useAudioMeter.ts:114-125); it reads the test
\* oscillator while that sounds on this bus.
MasterAnalyser == acState.masterVolume
MasterLevel == IF testTone # NoMaster /\ testTone = MasterAnalyser THEN ToneLevel ELSE Silence

\* useAudioMeter.ts:172-175: the value kept for an instrument with a tap
MeterAfter(current, level) ==
  IF current # level \/ (level < 1 /\ current > 0) THEN level ELSE current

\* useAudioMeter.ts:188-194 and 219-221: without a tap a positive value is reset
MeterWithoutTap(current, seen) == IF seen > 0 THEN Silence ELSE current

\* Playback is stopped, togglePlayback stopped it, and every analysis tap
\* reads silence.
StoppedSilent ==
  /\ stoppedByToggle
  /\ ~isPlaying
  /\ MasterLevel = Silence
  /\ \A i \in InstrumentIds : InstrumentLevel(instruments[i].chain) = Silence

\* useAudioMeter.ts:206-212: the master value is stored at every run
MasterMeterAfterPeakHold(current, level) == IF level > current THEN level ELSE current
MasterMeterAfter(current, level) == level

\* One run of the interval callback (useAudioMeter.ts:150-227).  Without a
\* master analyser, and in the catch block of the master read, the callback
\* tests the masterMeterValue of the render that created it, `seen`.  The
\* catch block of an instrument's read (185-187) logs a warning only.
MeterTickThrowing(seen, thrown, masterThrows) ==
  /\ MeterMonitoring
  /\ meterValue' =
       [i \in InstrumentIds |->
          IF instruments[i].chain.kind # "none"
            THEN IF i \in thrown
                   THEN meterValue[i]
                   ELSE MeterAfter(meterValue[i], InstrumentLevel(instruments[i].chain))
            ELSE MeterWithoutTap(meterValue[i], meterValue[i])]
  /\ masterMeterValue' =
       IF MasterAnalyser # NoMaster /\ ~masterThrows
         THEN MasterMeterAfter(masterMeterValue, MasterLevel)
         ELSE MeterWithoutTap(masterMeterValue, seen)
  /\ lastTickSilent' = StoppedSilent
  /\ tickThrew' = {i \in thrown : instruments[i].chain.kind # "none"}
  /\ UNCHANGED <<testTone, tonePc, stoppedByToggle>>
  /\ UNCHANGED <<ctxVars, resets, handlerVars, genVars, playVars, trackVars, storeVars,
                 countVars, exportVars, hookVars>>

\* In the application the taps are Tone.Analyser nodes, whose getValue() does
\* not throw, disposed or not.
MeterTick(seen) == MeterTickThrowing(seen, {}, FALSE)

ToneNotReadyMsg == "Audio system not ready. Please try again."
ToneFailedMsg == "Could not play test tone. Please check audio permissions."

\* testTone while the fallback oscillator sounds: it is connected to the
\* destination of its own AudioContext, not to a master bus.
WebAudioTone == -1

\* the innermost catch of playTestTone (useAudioContext.ts:579-585)
ToneFailure(ac) == [ac EXCEPT !.error = ToneFailedMsg]

\* playTestTone from the safety check on (useAudioContext.ts:534-554): the
\* oscillator is connected to the bus in masterVolumeRef and started.
\* creating, connecting or starting the oscillator may throw (oscOk = FALSE);
\* the catch block then plays the tone through a Web Audio context of its own
\* (559-577), and when that throws too the failure goes to the error slot.
TestToneBody(ac, oscOk, fallbackOk) ==
  IF masterVolumeRef = NoMaster
    THEN UNCHANGED testTone /\ acState' = [ac EXCEPT !.error = ToneNotReadyMsg]
    ELSE IF oscOk
      THEN testTone' = masterVolumeRef /\ acState' = ac
      ELSE IF fallbackOk
        THEN testTone' = WebAudioTone /\ acState' = ac
        ELSE UNCHANGED testTone /\ acState' = ToneFailure(ac)

\* playTestTone (useAudioContext.ts:519-554) up to its await
PlayTestTone(oscOk, fallbackOk) ==
  /\ Can("tone")
  /\ tonePc = "idle"
  /\ Spend("tone")
  /\ IF acState.isStarted
       THEN TestToneBody(acState, oscOk, fallbackOk) /\ UNCHANGED tonePc
       ELSE tonePc' = "start" /\ UNCHANGED <<testTone, acState>>
  /\ UNCHANGED <<toneContext, nextContext, masterVolumeRef, masterDb, contextIdRef,
                 initializingRef, retryRef, initPc, resetsCompleted, resets>>
  /\ UNCHANGED <<meterValue, masterMeterValue, stoppedByToggle, lastTickSilent, tickThrew>>
  /\ UNCHANGED <<handlerVars, genVars, playVars, trackVars, storeVars, exportVars, hookVars>>

\* resumed after "await startContext()" (useAudioContext.ts:522-527); the
\* startContext of the render that saw isStarted = FALSE activates.
TestToneStarted(ok, oscOk, fallbackOk) ==
  /\ tonePc = "start"
  /\ tonePc' = "idle"
  /\ IF ok
       THEN /\ TestToneBody([acState EXCEPT !.isStarted = TRUE], oscOk, fallbackOk)
            /\ UNCHANGED <<toneContext, nextContext, masterVolumeRef, masterDb,
                           contextIdRef, initializingRef, retryRef, initPc,
                           resetsCompleted, resets>>
       ELSE StartContextEffect(FALSE) /\ UNCHANGED testTone
  /\ UNCHANGED <<meterValue, masterMeterValue, stoppedByToggle, lastTickSilent, tickThrew>>
  /\ UNCHANGED <<handlerVars, genVars, playVars, trackVars, storeVars, countVars,
                 exportVars, hookVars>>

\* osc.stop("+0.5") takes effect (useAudioContext.ts:545-550)
TestToneEnds ==
  /\ testTone # NoMaster
  /\ testTone' = NoMaster
  /\ UNCHANGED <<meterValue, masterMeterValue, tonePc, stoppedByToggle, lastTickSilent, tickThrew>>
  /\ UNCHANGED <<ctxVars, resets, handlerVars, genVars, playVars, trackVars, storeVars,
                 countVars, exportVars, hookVars>>

\* ============================================================== page reload
\* The page is loaded afresh: every hook is mounted with its initial state
\* (useTrackAudio.ts:14-73, part_016:11-20, useAudioContext.ts:311-326), the
\* library has a new global context, and sessionStorage is what it was.
Reload ==
  /\ Can("reload")
  /\ Spend("reload")
  /\ preReload' =
       [present |-> TRUE,
        persisted |-> saved.present /\ isTrackGenerated /\ ActiveGens = {}
                      /\ genClicks = <<>>,
        trackSettings |-> trackSettings,
        volume |-> [i \in InstrumentIds |-> instruments[i].volume],
        budget |-> budget']
  /\ toneContext' = nextContext
  /\ nextContext' = nextContext + 1
  /\ acState' = [context |-> NoContext, isStarted |-> FALSE, isLoaded |-> FALSE,
                 error |-> NoError, masterVolume |-> NoMaster]
  /\ masterVolumeRef' = NoMaster
  /\ masterDb' = NoVolume
  /\ contextIdRef' = NoToken
  /\ initializingRef' = TRUE
  /\ retryRef' = 0
  /\ initPc' = "run"
  /\ resets' = [a \in 0..(maxAttempts - 1) |-> 0]
  /\ resetInProgress' = FALSE
  /\ hrPc' = "idle"
  /\ hrAttempts' = 0
  /\ hrAuto' = FALSE
  /\ hrIsPlaying' = FALSE
  /\ hrIsStarted' = FALSE
  /\ resetsCompleted' = 0
  /\ generationInProgressRef' = FALSE
  /\ gens' = [s \in GenSlots |-> IdleGen]
  /\ isLoading' = FALSE
  /\ isPlaying' = FALSE
  /\ trackError' = NoError
  /\ trackSettings' = DefaultSettings
  /\ isTrackGenerated' = FALSE
  /\ instruments' = [i \in InstrumentIds |-> InitialInstrument(i)]
  /\ pending' = {}
  /\ settingsRestored' = FALSE
  /\ meterInterval' = FALSE
  /\ genClicks' = <<>>
  /\ downloadInProgress' = FALSE
  /\ playbackInProgressRef' = FALSE
  /\ pbs' = [s \in PlaySlots |-> IdlePlayback]
  /\ transport' = [state |-> "stopped", bpm |-> 120]
  /\ exportInProgressRef' = FALSE
  /\ dls' = [s \in DlSlots |-> "idle"]
  /\ startReturned' = "none"
  /\ meterValue' = [i \in InstrumentIds |-> Silence]
  /\ masterMeterValue' = Silence
  /\ testTone' = NoMaster
  /\ tonePc' = "idle"
  /\ stoppedByToggle' = FALSE
  /\ lastTickSilent' = FALSE
  /\ tickThrew' = {}
  /\ UNCHANGED <<volumeKey, saved, masterVolumeKey>>

Next ==
  \/ \E ok \in BOOLEAN : InitAttempt(ok)
  \/ \E ok \in BOOLEAN : StartContext(ok)
  \/ \E db \in MasterChoices : SetMasterVolume(db)
  \/ \E a \in 0..(maxAttempts - 1), ok \in BOOLEAN : ResetAttempt(a, ok)
  \/ ResetButton
  \/ AutoReset
  \/ HandleResetYield
  \/ HandleResetAfterToggle
  \/ \E ok \in BOOLEAN : HandleResetAttempt(ok)
  \/ HandleResetTimeout
  \/ HandleGenerate
  \/ \E settings \in SettingsChoices : GenerateTrack(settings)
  \/ GenerateRejected
  \/ \E s \in GenSlots : GenYield(s)
  \/ \E s \in GenSlots, r \in SampleUrls \cup {NoPath} : GenSetup(s, r)
  \/ \E p \in pending : LoadOk(p)
  \/ \E p \in pending : LoadFail(p)
  \/ \E i \in InstrumentIds, v \in VolumeChoices : SetInstrumentVolume(i, v)
  \/ LoadSavedState
  \/ TogglePlayback
  \/ ToggleRejected
  \/ \E s \in PlaySlots, ok \in BOOLEAN : PlaybackStartContext(s, ok)
  \/ \E s \in PlaySlots, ok \in BOOLEAN : PlaybackYield(s, ok)
  \/ DownloadTrack
  \/ DownloadDuringExport
  \/ \E s \in DlSlots : DownloadRender(s)
  \/ \E s \in DlSlots : DownloadFinish(s)
  \/ Reload
  \/ \E oscOk \in BOOLEAN, fallbackOk \in BOOLEAN : PlayTestTone(oscOk, fallbackOk)
  \/ \E ok \in BOOLEAN, oscOk \in BOOLEAN, fallbackOk \in BOOLEAN :
       TestToneStarted(ok, oscOk, fallbackOk)
  \/ TestToneEnds
  \/ \E seen \in {Silence, ToneLevel} : MeterTick(seen)

Spec == Init /\ [][Next]_vars

\* The event loop runs every due continuation: timers fire and the promises
\* of the sample resolver, of Tone.Transport and of the offline render settle.
FairSpec ==
  /\ Spec
  /\ WF_vars(\E s \in GenSlots : GenYield(s))
  /\ WF_vars(\E s \in GenSlots, r \in SampleUrls \cup {NoPath} : GenSetup(s, r))
  /\ WF_vars(\E s \in PlaySlots, ok \in BOOLEAN : PlaybackStartContext(s, ok))
  /\ WF_vars(\E s \in PlaySlots, ok \in BOOLEAN : PlaybackYield(s, ok))
  /\ WF_vars(\E s \in DlSlots : DownloadRender(s))
  /\ WF_vars(\E s \in DlSlots : DownloadFinish(s))

\* ------------------------------------------------- the meter callback alone
\* startMeterMonitoring is handed the instrument records by its caller
\* (useAudioMeter.ts:137-140).  The bench gives it every record: no tap, a
\* tap on a silent source, a tap on a sounding one; any value on the meters;
\* and taps whose read throws.
BenchChain(st) ==
  [NoChain EXCEPT !.kind = "player", !.context = toneContext, !.gain = -12,
                  !.out = [to |-> "destination", id |-> toneContext], !.state = st]

BenchInstrument(i, tap) ==
  IF tap = "none" THEN InitialInstrument(i)
  ELSE [InitialInstrument(i) EXCEPT !.loadingState = "loaded", !.chain = BenchChain(tap)]

MeterInit ==
  /\ Mounted
  /\ budget = NoUse
  /\ isTrackGenerated = TRUE
  /\ meterInterval = TRUE
  /\ \E m \in {NoMaster, 1} :
       acState = [context |-> 1, isStarted |-> TRUE, isLoaded |-> TRUE,
                  error |-> NoError, masterVolume |-> m]
  /\ \E taps \in [InstrumentIds -> {"none", "stopped", "started"}] :
       instruments = [i \in InstrumentIds |-> BenchInstrument(i, taps[i])]
  /\ meterValue \in [InstrumentIds -> {Silence, ToneLevel}]
  /\ masterMeterValue \in {Silence, ToneLevel}
  /\ testTone \in {NoMaster, 1}

MeterNext ==
  \E seen \in {Silence, ToneLevel}, thrown \in SUBSET InstrumentIds, masterThrows \in BOOLEAN :
    MeterTickThrowing(seen, thrown, masterThrows)

MeterSpec == MeterInit /\ [][MeterNext]_vars

\* ================================================================ properties
\* The loads whose onload or onerror ran in this step (a page reload drops
\* the outstanding loads without running either).
LoadsEnded == IF budget'["reload"] < budget["reload"] THEN {} ELSE pending \ pending'

\* What the branches left out of the actions rest on.
LoadedIsStarted == acState.isLoaded => acState.isStarted

LoadedHasPlayer ==
  \A i \in InstrumentIds :
    instruments[i].loadingState = "loaded" => instruments[i].chain.kind = "player"

ChainMap(insts) == [i \in InstrumentIds |-> insts[i].chain]

\* A step in which generateTrack is called while the flag is set
RejectedGenerateCall ==
  genClicks # <<>> /\ genClicks' = Tail(genClicks) /\ generationInProgressRef

\* A step in which loadSavedState calls regenerateTrackFromSavedState while
\* the flag is set
RejectedRegenerateCall == budget'["restore"] < budget["restore"] /\ generationInProgressRef

C2_StraddlingBuildDiscarded ==
  [][\A p \in LoadsEnded :
       p.epoch # resetsCompleted =>
          /\ instruments'[p.inst].chain # LoadedChain(p)
          /\ trackError' # NoError]_vars

\* C3: every chain stored on an instrument was built against the context the
\* context manager currently publishes.
C3_ChainsOnCurrentContext ==
  \A i \in InstrumentIds :
    instruments[i].chain.kind # "none" => instruments[i].chain.context = acState.context

\* C4: at most one resetContext call is between its teardown and its return.
C4_ResetsCollapse == RunningResets <= 1

\* C5: initContext and every resetContext call make at most three attempts,
\* and once initContext or a resetContext call has given up with its error, no
\* reset is started by a timer.
TerminalErrors == {InitFailedMsg, ResetFailedMsg}

C5_BoundedRecreation ==
  /\ [](retryRef <= maxRetries /\ hrAttempts < maxAttempts)
  /\ [][acState.error \in TerminalErrors => ~(hrAuto' /\ ~hrAuto)]_vars

\* C6: whenever the single-flight flag of generation, of playback or of the
\* export is set, it is eventually cleared: each flag is clear again and again,
\* so no accepted call leaves its flag set for ever.
C6_FlagsEventuallyCleared ==
  /\ []<>(~generationInProgressRef)
  /\ []<>(~playbackInProgressRef)
  /\ []<>(~exportInProgressRef)

\* A generation ended by the CONTEXT_MISMATCH error has cleared its flag.
C6_ThrownErrorCleared ==
  trackError = GenerateFailedMsg /\ ~generationInProgressRef /\ ActiveGens = {}

\* C7: once a gain g was set for an instrument, the gain node of every chain
\* built for it afterwards is created with gain g, and so is the gain node of
\* the fallback oscillator that replaces such a chain when its load fails.
C7_GainSurvivesRebuild ==
  [][/\ \A p \in pending' \ pending :
          volumeKey[p.inst] # NoVolume => p.gain = volumeKey[p.inst]
     /\ \A p \in LoadsEnded :
          (instruments'[p.inst].chain.kind = "oscillator" /\ p.gain = volumeKey[p.inst])
            => instruments'[p.inst].chain.gain = volumeKey[p.inst]]_vars

\* C8: whenever an instrument holds a chain, the gain of the chain is the
\* gain stored on the instrument.
C8_ChainGainIsStoredGain ==
  \A i \in InstrumentIds :
    instruments[i].chain.kind # "none" => instruments[i].chain.gain = instruments[i].volume

C10_GeneratedIffLoaded ==
  (ActiveGens = {} /\ genClicks = <<>> /\ pending = {} /\ meterInterval) =>
    IF \E i \in InstrumentIds : instruments[i].loadingState = "loaded"
      THEN isTrackGenerated
      ELSE ~isTrackGenerated /\ trackError # NoError

\* C11: when a togglePlayback call takes the track from playing to stopped,
\* every instrument keeps the chain it had, undisposed and connected as before.
C11_StopKeepsChains ==
  [][\A s \in PlaySlots :
       (pbs[s].pc = "yield" /\ pbs'[s].pc = "idle" /\ isPlaying /\ ~isPlaying') =>
         \A i \in InstrumentIds : instruments'[i].chain = instruments[i].chain]_vars

\* The instruments whose chain has a running source (player.state or
\* oscillator.state is "started").
StartedChains(insts) ==
  {i \in InstrumentIds : insts[i].chain.kind # "none" /\ insts[i].chain.state = "started"}

\* A togglePlayback call that took the branch for a stopped track ends.
StartBranchEnds(s) == pbs[s].pc = "yield" /\ pbs'[s].pc = "idle" /\ ~pbs[s].isPlaying

\* C12: a togglePlayback call from the stopped state leaves isPlaying true only
\* if it started the chain of at least one instrument.
C12_PlayingOnlyIfStarted ==
  [][\A s \in PlaySlots :
       (StartBranchEnds(s) /\ isPlaying') => StartedChains(instruments') # {}]_vars

\* C13: a togglePlayback call from the stopped state that started no
\* instrument sets the error slot and starts a resetContext call.
C13_NothingStartedIsReported ==
  [][\A s \in PlaySlots :
       (StartBranchEnds(s) /\ StartedChains(instruments') = {}) =>
         (trackError' # NoError /\ RunningResets' > RunningResets)]_vars

\* A step that is a direct startContext() call.
StartContextCalled == budget'["start"] < budget["start"]

\* C14: startContext() called while the context is started activates nothing,
\* changes no state of the hook and returns success (true).
C14_StartContextIdempotent ==
  [][(StartContextCalled /\ acState.isStarted) =>
       (UNCHANGED <<ctxVars, resets>> /\ startReturned' = "true")]_vars

\* C15: a startContext() call whose activation fails or times out returns
\* false, leaves an error string in the hook's state and starts a
\* resetContext call.
C15_StartFailureReported ==
  [][(StartContextCalled /\ ~acState.isStarted /\ ~acState'.isStarted) =>
       /\ startReturned' = "false"
       /\ acState'.error # NoError
       /\ RunningResets' > RunningResets]_vars

\* C16: when a resetContext call succeeds after a master volume was set and
\* persisted, the new master bus has that loudness.
C16_MasterVolumeSurvivesReset ==
  [][(resetsCompleted' > resetsCompleted /\ masterVolumeKey # NoVolume) =>
       masterDb' = masterVolumeKey]_vars

\* C17: every successful resetContext call publishes a context identity token
\* that differs from the token published before it.
C17_ResetPublishesNewToken ==
  [][resetsCompleted' > resetsCompleted => contextIdRef' # contextIdRef]_vars

\* C18: once a reset has replaced the context and its master bus, every chain
\* that is connected afterwards is connected to the master bus in effect, never
\* to a previous one and never past it.
C18_ConnectionsTargetCurrentMaster ==
  [][\A p \in LoadsEnded :
       (resetsCompleted > 0 /\ masterVolumeRef # NoMaster) =>
         instruments'[p.inst].chain.out = [to |-> "master", id |-> masterVolumeRef]]_vars

MetersZero == masterMeterValue = 0 /\ \A i \in InstrumentIds : meterValue[i] = 0

NoTapMetersZero ==
  \A i \in InstrumentIds : instruments[i].chain.kind = "none" => meterValue[i] = 0

\* C19: while playback stays stopped by togglePlayback the polling runs, and
\* once one polling run has found the taps silent every instrument meter and
\* the master meter are 0 and remain 0; while the polling runs, an instrument
\* without a tap has its meter at 0.
C19_MetersDecayToZero ==
  /\ stoppedByToggle => MeterMonitoring
  /\ (StoppedSilent /\ lastTickSilent) => MetersZero
  /\ MeterMonitoring => NoTapMetersZero

\* The test tone was played, togglePlayback stopped playback, and a polling run
\* made while the taps were silent has left every meter at 0.
C19_DecayedAfterTone ==
  /\ StoppedSilent /\ lastTickSilent /\ MetersZero
  /\ budget = [MeterScenario EXCEPT !["generate"] = 0, !["toggle"] = MaxToggles - 1,
                                     !["tone"] = MaxTones - 1]

\* The page was reloaded while a generated track was persisted and nothing
\* was in progress, loadSavedState has run since, the regeneration it started
\* has ended, and the user has changed nothing since the reload.
RestoredAfterReload ==
  /\ preReload.present /\ preReload.persisted
  /\ budget["restore"] < preReload.budget["restore"]
  /\ budget["volume"] = preReload.budget["volume"]
  /\ budget["generate"] = preReload.budget["generate"]
  /\ ActiveGens = {} /\ genClicks = <<>>

\* C20: after a reload and the restore of the persisted track, the track
\* settings and every instrument's gain equal the values in effect just before
\* the reload.
C20_PersistedStateRoundTrips ==
  RestoredAfterReload =>
    /\ trackSettings = preReload.trackSettings
    /\ \A i \in InstrumentIds : instruments[i].volume = preReload.volume[i]

\* A pass of the instrument loop of generation s runs in this step.
GenSetupStep(s) ==
  gens[s].pc = "setup" /\ gens'[s] # gens[s] /\ budget'["reload"] = budget["reload"]

\* C21: within one generateTrack or regenerateTrackFromSavedState call, when
\* the build of an instrument begins, the load of the instrument before it in
\* the fixed order has completed: that instrument is loaded or in error.
C21_LoadAwaitedBeforeNext ==
  [][\A s \in GenSlots :
       (GenSetupStep(s) /\ gens[s].idx > 1) =>
         instruments[Order[gens[s].idx - 1]].loadingState \in {"loaded", "error"}]_vars

\* The build made by this pass of generation s fails: the resolver has no
\* sample for the instrument, or the context check throws.
BuildFails(s) ==
  \/ instruments'[Order[gens[s].idx]].samplePath = NoPath
  \/ ContextMismatch(gens[s].currentContextId)

\* A togglePlayback call ends in this step.
ToggleEnds(s) ==
  pbs[s].pc = "yield" /\ pbs'[s].pc = "idle" /\ budget'["reload"] = budget["reload"]

\* C22: a build that fails inside generateTrack or
\* regenerateTrackFromSavedState leaves the instrument in error and the error
\* slot set, and the call goes on to the next instrument or ends with isLoading
\* and its flag cleared; a togglePlayback call that cannot start the transport
\* sets the error slot, and every togglePlayback call ends with its flag cleared.
C22_FailuresConverted ==
  [][/\ \A s \in GenSlots :
          (GenSetupStep(s) /\ BuildFails(s)) =>
            /\ instruments'[Order[gens[s].idx]].loadingState = "error"
            /\ trackError' # NoError
            /\ gens'[s].pc \in {"setup", "idle"}
            /\ gens'[s].pc = "idle" => (~isLoading' /\ ~generationInProgressRef')
     /\ \A s \in PlaySlots :
          ToggleEnds(s) =>
            /\ ~playbackInProgressRef'
            /\ (~pbs[s].isPlaying /\ ~isPlaying') => trackError' # NoError]_vars

\* A generation was ended by the CONTEXT_MISMATCH error of setupInstrument:
\* the instrument is in error, the error slot holds the message, nothing runs.
C22_MismatchConverted ==
  /\ trackError = GenerateFailedMsg
  /\ \E i \in InstrumentIds : instruments[i].loadingState = "error"
  /\ ~isLoading /\ generationInProgressRef = FALSE

\* A playTestTone call returns in this step.
TestToneReturns ==
  /\ budget'["reload"] = budget["reload"]
  /\ tonePc' = "idle"
  /\ budget'["tone"] < budget["tone"] \/ tonePc = "start"

\* C23: a playTestTone call returns to its caller in every state it is made
\* in, and when it returns either a tone sounds or the error slot of the
\* shared state holds the message of the failure.
C23_TestToneDegrades ==
  [][/\ (budget'["tone"] < budget["tone"] \/ tonePc' # tonePc) =>
          tonePc' \in {"idle", "start"}
     /\ TestToneReturns =>
          \/ testTone' # NoMaster
          \/ acState'.error \in {StartFailedMsg, ToneNotReadyMsg, ToneFailedMsg}]_vars

\* A downloadTrack call arrives in this step while an export runs.
CallDuringExport ==
  budget'["download"] < budget["download"] /\ ActiveDownloads # {}

\* C24: at most one export runs at a time, and a downloadTrack call that
\* arrives during an export starts no offline render and leaves the running
\* export, its flag and the library's context as they are.
C24_SingleExport ==
  [][/\ Cardinality(ActiveDownloads') <= 1
     /\ CallDuringExport =>
          /\ dls' = dls
          /\ exportInProgressRef' /\ exportInProgressRef
          /\ toneContext' = toneContext
          /\ downloadInProgress' = downloadInProgress]_vars

\* A call was rejected during an export, and the export is still rendering.
C24_RejectedWhileRendering ==
  /\ budget["download"] = MaxDownloads - 2
  /\ \E s \in DlSlots : dls[s] = "render"
  /\ exportInProgressRef

\* The play button is pressed in this step while a togglePlayback call is in
\* progress.
ToggleDuringToggle ==
  budget'["toggle"] < budget["toggle"] /\ ActivePlaybacks # {}

\* C25: at most one togglePlayback call executes at a time, and a call that
\* arrives while another is in progress returns without changing isPlaying,
\* the transport, any chain or the call in progress.
C25_SingleFlightToggle ==
  [][/\ Cardinality(ActivePlaybacks') <= 1
     /\ ToggleDuringToggle =>
          /\ isPlaying' = isPlaying
          /\ transport' = transport
          /\ ChainMap(instruments') = ChainMap(instruments)
          /\ pbs' = pbs
          /\ playbackInProgressRef']_vars

\* The play button was pressed twice and the first call is still in progress.
\* Nothing has played and no start has failed, so the first call starts the
\* transport and the second one was turned away.
C25_SecondToggleRejected ==
  /\ budget["toggle"] = MaxToggles - 1
  /\ budget["tone"] = MaxTones
  /\ ~isPlaying /\ trackError # PlaybackErrorMsg /\ ~stoppedByToggle
  /\ \E s \in PlaySlots : ActivePlaybacks = {s} /\ ~pbs[s].isPlaying
  /\ playbackInProgressRef

GenerationFinishes(s) ==
  gens[s].pc = "setup" /\ gens'[s].pc = "idle" /\ budget'["reload"] = budget["reload"]

\* C27: when a generateTrack or regenerateTrackFromSavedState call that
\* reached chain building finishes, with all, some or no instrument built or
\* with a thrown error, the interval of the Level Meter is running.
C27_MeterRunsAfterGeneration ==
  [][\A s \in GenSlots : GenerationFinishes(s) => (meterInterval' /\ MeterMonitoring')]_vars

\* A generation ended with no instrument built: no track is generated, and
\* the interval runs.
C27_MeterRunsAfterZeroSuccess ==
  /\ ActiveGens = {}
  /\ trackError = NoInstrumentsMsg
  /\ ~isTrackGenerated
  /\ meterInterval

\* The chain is wired inside one context: what its gain stage is connected
\* to, a master bus or a destination, belongs to the context of its nodes.
WiredInOneContext(chain) ==
  /\ chain.out.to = "master" => MasterContext(chain.out.id) = chain.context
  /\ chain.out.to = "destination" => chain.out.id = chain.context

C29_TempoMatchesSettings ==
  [][\A s \in GenSlots :
       GenerationFinishes(s) => transport'.bpm = gens[s].settings.bpm]_vars

\* C30: when a generateTrack or regenerateTrackFromSavedState call finishes,
\* every instrument is loaded or in error; none is still loading.
C30_NoneLoadingAtFinish ==
  [][\A s \in GenSlots :
       GenerationFinishes(s) =>
         \A i \in InstrumentIds : instruments'[i].loadingState \in {"loaded", "error"}]_vars

\* A downloadTrack call that started a render returns in this step.
ExportReturns(s) ==
  dls[s] = "render" /\ dls'[s] = "idle" /\ budget'["reload"] = budget["reload"]

\* C31: when downloadTrack returns, the library's current context is the
\* session context again: the offline rendering context is no longer current.
C31_ExportRestoresContext ==
  [][\A s \in DlSlots :
       ExportReturns(s) => ~IsOffline(toneContext')]_vars

\* loadSavedState calls regenerateTrackFromSavedState in this step and the
\* call passes the guard.
RegenerationStarts ==
  \E s \in GenSlots :
    gens[s].pc = "idle" /\ gens'[s].pc # "idle" /\ gens'[s].kind = "regenerate"

\* C32: regenerateTrackFromSavedState is invoked on the initial load only: when
\* it starts nothing is playing and no instrument holds a chain or has a load
\* in flight, so it stops no playback and tears no chain down.
C32_RestoreOnInitialLoadOnly ==
  [][RegenerationStarts =>
       /\ ~isPlaying
       /\ pending = {}
       /\ \A i \in InstrumentIds : instruments[i].chain.kind = "none"]_vars

\* C33: a resetContext call that is waiting for the context to activate
\* returns after a bounded wait, whether or not the activation completes.
C33_ResetTerminates ==
  (RunningResets > 0) ~> (RunningResets = 0)

\* A resetContext call returns in this step, with success or after its last
\* attempt.
ResetCallReturns ==
  RunningResets' < RunningResets /\ budget'["reload"] = budget["reload"]

\* C34: when resetContext returns, the stored track-state record is absent and
\* the stored master volume and the stored instrument volumes are what they
\* were before the return.
C34_ResetClearsTrackStateOnly ==
  [][ResetCallReturns =>
       /\ ~saved'.present
       /\ masterVolumeKey' = masterVolumeKey
       /\ volumeKey' = volumeKey]_vars

\* A reset has completed after a generated track was stored and a master
\* volume was saved: the record is gone, the master volume key is still there.
C34_RecordClearedVolumeKept ==
  /\ resetsCompleted > 0
  /\ isTrackGenerated
  /\ ~saved.present
  /\ masterVolumeKey # NoVolume
  /\ \E i \in InstrumentIds : instruments[i].loadingState = "loaded"

\* A chain that is undisposed and connected to the mix.
LiveChain(chain) == chain.kind # "none" /\ ~chain.disposed /\ chain.out.to # "none"

\* The load callback (onload or onerror) of the player of load p runs in this step.
LoadCallbackFires(p) ==
  p \in pending /\ p \notin pending' /\ budget'["reload"] = budget["reload"]

\* C35: an instrument has at most one live chain: a load callback never
\* installs its chain over a chain that is still undisposed and connected,
\* which would stay connected beside the new one.
C35_OneLiveChain ==
  [][\A p \in pending :
       LoadCallbackFires(p) => ~LiveChain(instruments[p.inst].chain)]_vars

\* C36: an instrument whose loading state is loaded holds an undisposed chain,
\* and an instrument whose loading state is idle or loading holds no chain.
C36_LoadingStateMatchesChain ==
  \A i \in InstrumentIds :
    /\ instruments[i].loadingState = "loaded" =>
         (instruments[i].chain.kind # "none" /\ ~instruments[i].chain.disposed)
    /\ instruments[i].loadingState \in {"idle", "loading"} =>
         instruments[i].chain.kind = "none"

\* C37: the loading indicator is on only while a generation is in progress.
C37_LoadingImpliesGeneration ==
  isLoading => generationInProgressRef

\* A generation is building instruments with the loading indicator on, after
\* an earlier generation has finished and switched it off.
C37_LoadingDuringSecondBuild ==
  /\ isLoading
  /\ generationInProgressRef
  /\ isTrackGenerated
  /\ \E s \in GenSlots : gens[s].pc = "setup"

\* C38: while a generation is in progress no togglePlayback call starts
\* playback: isPlaying does not become true and the transport is not started.
C38_NoPlaybackStartDuringGeneration ==
  [][generationInProgressRef =>
       /\ (~isPlaying => ~isPlaying')
       /\ (transport.state # "started" => transport'.state # "started")]_vars

====
